---- MODULE Spec2Model ----
(***************************************************************************)
(* Model of the SupabasePasswordReset class (src/README.md, lines 476-618) *)
(* and of its caller resetUserPassword (src/example.js).                   *)
(*                                                                         *)
(* The class is constructed once from a configuration object and exposes   *)
(* one async method, resetPasswordByEmail.  An invocation suspends at four *)
(* awaits (lookup, bcrypt.hash, update, mailgun create); the code between  *)
(* two awaits runs atomically, so every action below is one such segment.  *)
(* Several invocations of the same instance may be suspended at once.      *)
(***************************************************************************)
EXTENDS Integers, Sequences, FiniteSets, TLC

(***************************************************************************)
(* Bounds of the model.                                                    *)
(***************************************************************************)
\* options.passwordLength as supplied by the modelled configurations
PasswordLength == 2
\* number of distinct salts bcrypt may draw
NumSalts == 2

(***************************************************************************)
(* JavaScript values.                                                      *)
(***************************************************************************)
\* the value undefined (an absent property reads as undefined)
Undefined == "<undefined>"
\* the value null, as a value that can be resolved, thrown or rejected with
Null == [kind |-> "null", message |-> Undefined]

\* falsiness of a string-or-undefined value, as tested by the ! operator
Falsy(v) == v \in {Undefined, ""}

\* values a collaborator may throw or reject with: an Error object, a bare
\* string, and null
ThrownValues ==
    { [kind |-> "Error", message |-> "socket hang up"],
      [kind |-> "string", message |-> Undefined],
      Null }

\* error value a supabase query resolves with in its error property
DirectoryError == [kind |-> "Error", message |-> "PGRST"]

(***************************************************************************)
(* The accounts of the external directory and the emails of the callers.   *)
(***************************************************************************)
Accounts == { [id |-> "u1", email |-> "user@example.com"],
              [id |-> "u2", email |-> "other@example.com"] }
Ids == { a.id : a \in Accounts }
Emails == { a.email : a \in Accounts } \cup { "nobody@example.com" }
AccountOf(email) == CHOOSE a \in Accounts : a.email = email
HasAccount(email) == \E a \in Accounts : a.email = email

(***************************************************************************)
(* _generateRandomPassword: passwordLength characters of the alphabet.     *)
(* The model keeps two of the 72 characters.                               *)
(***************************************************************************)
chars == {"a", "!"}
\* the strings _generateRandomPassword may return
_generateRandomPassword(passwordLength) == [1..passwordLength -> chars]
Passwords == _generateRandomPassword(PasswordLength)

(***************************************************************************)
(* bcrypt.hash(password, saltRounds) and bcrypt.compare.                   *)
(* A hash is the sequence <<version, cost, salt>> followed by a digest     *)
(* that depends on the salt and on every character of the password.        *)
(***************************************************************************)
Salts == { "s" \o ToString(i) : i \in 1..NumSalts }
Digest(password, salt) ==
    [i \in 1..Len(password) |-> salt \o "/" \o password[i]]
Hash(password, saltRounds, salt) ==
    <<"$2b$", ToString(saltRounds), salt>> \o Digest(password, salt)
Compare(password, hash) ==
    /\ Len(hash) >= 3
    /\ hash = <<hash[1], hash[2], hash[3]>> \o Digest(password, hash[3])

\* hash stored for every account before any reset
InitialHash == <<"$2b$", "10", "s0", "s0/o", "s0/l", "s0/d">>

(***************************************************************************)
(* Configurations handed to the constructor.                               *)
(***************************************************************************)
\* a required field is absent, empty or set
FieldValues(set) == {Undefined, "", set}
\* the empty options object
NoOptions == [k \in {} |-> ""]
\* options objects of the README's examples
UserOptions ==
    { NoOptions,
      [fromEmail |-> "support@yourcompany.com", fromName |-> "Your Company Support",
       subject |-> "Your Password Has Been Reset - Action Required",
       emailTemplateFunction |-> "verboseTemplate"],
      [emailTemplateFunction |-> "terseTemplate"] }
Configs ==
    [ supabaseUrl : FieldValues("https://your-project.supabase.co"),
      supabaseKey : FieldValues("your-supabase-service-role-key"),
      mailgunApiKey : FieldValues("your-mailgun-api-key"),
      mailgunDomain : FieldValues("your-mailgun-domain.com"),
      options : UserOptions ]

\* the guard with the test of mailgunDomain left out
MissingRequiredNoDomain(cfg) ==
    \/ Falsy(cfg.supabaseUrl)
    \/ Falsy(cfg.supabaseKey)
    \/ Falsy(cfg.mailgunApiKey)

\* the guard of the constructor
MissingRequired(cfg) ==
    \/ Falsy(cfg.supabaseUrl)
    \/ Falsy(cfg.supabaseKey)
    \/ Falsy(cfg.mailgunApiKey)
    \/ Falsy(cfg.mailgunDomain)

\* the defaults of this.options
DefaultOptions ==
    [ saltRounds |-> 10,
      passwordLength |-> PasswordLength,
      fromEmail |-> "noreply@yourdomain.com",
      fromName |-> "Password Reset",
      subject |-> "Your Password Has Been Reset",
      emailTemplateFunction |-> "_defaultEmailTemplate" ]

\* { ...defaults, ...config.options }
MergeOptions(userOptions) ==
    [k \in DOMAIN DefaultOptions |->
        IF k \in DOMAIN userOptions THEN userOptions[k] ELSE DefaultOptions[k]]

(***************************************************************************)
(* Email bodies.  A body is the sequence of its text segments; a password  *)
(* interpolated into it contributes its characters.                        *)
(***************************************************************************)
_defaultEmailTemplate(email, password) ==
    <<"Hello,", "Your password has been reset. Your new temporary password is: ">>
    \o password
    \o <<"Please login with this password and change it immediately for security reasons.",
         "This is an automated message, please do not reply.">>

\* the template of the README's Advanced Configuration
verboseTemplate(email, password) ==
    <<"Hello " \o email \o ",", "Your password has been reset as requested.",
      "New Password: ">>
    \o password
    \o <<"Please log in and change your password immediately.">>

\* a template that does not use its password argument
terseTemplate(email, password) ==
    <<"Hello " \o email \o ",", "Your password has been reset."
      >>

ApplyTemplate(fn, email, password) ==
    CASE fn = "_defaultEmailTemplate" -> _defaultEmailTemplate(email, password)
      [] fn = "verboseTemplate" -> verboseTemplate(email, password)
      [] fn = "terseTemplate" -> terseTemplate(email, password)

\* body contains the characters of text, in order and adjacent
Contains(body, text) ==
    \E i \in 1..(Len(body) - Len(text) + 1) :
        SubSeq(body, i, i + Len(text) - 1) = text

(***************************************************************************)
(* The pieces of resetPasswordByEmail.                                     *)
(***************************************************************************)
\* the test with !user left out
UserMissingErrorOnly(response) == response.error # Null

\* if (userError || !user)
UserMissing(response) == response.error # Null \/ response.data = Null

\* the result with the lookup's error attached
UserNotFoundWithError ==
    [success |-> FALSE, message |-> "User not found", error |-> DirectoryError.message]

UserNotFoundResult == [success |-> FALSE, message |-> "User not found"]

\* the update storing the generated password itself
UpdateValuesPlain(newPassword, hashedPassword) == newPassword

\* .update({ encrypted_password: hashedPassword })
UpdateValues(newPassword, hashedPassword) == hashedPassword

\* reading a property of null throws a TypeError
TypeErrorOf(property) ==
    [kind |-> "Error", message |-> "Cannot read properties of null (reading '" \o property \o "')"]

\* the filter comparing the id column with the email
UpdateTargetEmail(user) == user.email

\* .eq('id', user.id)
UpdateTarget(user) == user.id

\* the test that never sees the error
UpdateFailedIgnored(response) == FALSE

\* if (updateError)
UpdateFailed(response) == response.error # Null

UpdateFailedResult == [success |-> FALSE, message |-> "Failed to update password"]

\* emailData with the angle brackets of from left out
EmailDataPlainFrom(opts, email, newPassword) ==
    [ from |-> opts.fromName \o " " \o opts.fromEmail,
      to |-> email,
      subject |-> opts.subject,
      text |-> ApplyTemplate(opts.emailTemplateFunction, email, newPassword) ]

\* const emailData = { from, to, subject, text }
EmailData(opts, email, newPassword) ==
    [ from |-> opts.fromName \o " <" \o opts.fromEmail \o ">",
      to |-> email,
      subject |-> opts.subject,
      text |-> ApplyTemplate(opts.emailTemplateFunction, email, newPassword) ]

\* the result reporting a failure on the success path
SuccessResultInverted ==
    [ success |-> FALSE,
      message |-> "Password reset successful. An email has been sent with the new password." ]

SuccessResult ==
    [ success |-> TRUE,
      message |-> "Password reset successful. An email has been sent with the new password." ]

\* the body of a catch block: reading error.message of null throws a
\* TypeError, which rejects the promise of the enclosing async function
CatchSettles(error) ==
    IF error.kind = "null"
    THEN [state |-> "rejected", reason |-> TypeErrorOf("message")]
    ELSE [state |-> "fulfilled",
          value |-> [success |-> FALSE,
                     message |-> "An unexpected error occurred",
                     error |-> error.message]]

Fulfilled(value) == [state |-> "fulfilled", value |-> value]
Pending == [state |-> "pending"]

(***************************************************************************)
(* State.                                                                  *)
(***************************************************************************)
VARIABLES
    config,          \* the object passed to the constructor
    service,         \* "unbuilt", "ready" (an instance exists) or "failed"
    options,         \* this.options of the instance
    store,           \* directory: encrypted_password of every account id
    lastWriter,      \* directory: the invocation whose update was applied last
    pc,              \* position of every invocation
    email,           \* argument of every invocation
    lookupResponse,  \* how the lookup of the invocation settled
    user,            \* const user
    newPassword,     \* const newPassword
    hashedPassword,  \* const hashedPassword
    updateCalls,     \* the update calls the invocation issued: <<id, value>>
    updateResponse,  \* how the update of the invocation settled
    sendCalls,       \* the messages.create calls issued: <<domain, emailData>>
    sendResponse,    \* how the send of the invocation settled
    result           \* the promise returned by resetPasswordByEmail

vars == <<config, service, options, store, lastWriter, pc, email, lookupResponse,
          user, newPassword, hashedPassword, updateCalls, updateResponse,
          sendCalls, sendResponse, result>>

\* the calls of resetPasswordByEmail that may be in progress at once
Invocations == {"call1", "call2"}
NoInvocation == "none"
None == [settle |-> "none"]
Resolved(fields) == [settle |-> "resolved"] @@ fields
Rejected(reason) == [settle |-> "rejected", reason |-> reason]

Init ==
    /\ config \in Configs
    /\ service = "unbuilt"
    /\ options = NoOptions
    /\ store = [id \in Ids |-> InitialHash]
    /\ lastWriter = [id \in Ids |-> NoInvocation]
    /\ pc = [p \in Invocations |-> "idle"]
    /\ email = [p \in Invocations |-> Undefined]
    /\ lookupResponse = [p \in Invocations |-> None]
    /\ user = [p \in Invocations |-> Null]
    /\ newPassword = [p \in Invocations |-> <<>>]
    /\ hashedPassword = [p \in Invocations |-> <<>>]
    /\ updateCalls = [p \in Invocations |-> <<>>]
    /\ updateResponse = [p \in Invocations |-> None]
    /\ sendCalls = [p \in Invocations |-> <<>>]
    /\ sendResponse = [p \in Invocations |-> None]
    /\ result = [p \in Invocations |-> Pending]

\* new SupabasePasswordReset(config)
Construct ==
    /\ service = "unbuilt"
    /\ IF MissingRequired(config)
       THEN /\ service' = "failed"
            /\ UNCHANGED options
       ELSE /\ service' = "ready"
            /\ options' = MergeOptions(config.options)
    /\ UNCHANGED <<config, store, lastWriter, pc, email, lookupResponse, user,
                   newPassword, hashedPassword, updateCalls, updateResponse,
                   sendCalls, sendResponse, result>>

\* the invocation returns: its promise settles and it stops
Settle(p, settled) ==
    /\ pc' = [pc EXCEPT ![p] = "settled"]
    /\ result' = [result EXCEPT ![p] = settled]

\* resetPasswordByEmail(email) is called: it issues the lookup and suspends
Start(p, e) ==
    /\ service = "ready"
    /\ pc[p] = "idle"
    /\ pc' = [pc EXCEPT ![p] = "lookup"]
    /\ email' = [email EXCEPT ![p] = e]
    /\ UNCHANGED <<config, service, options, store, lastWriter, lookupResponse,
                   user, newPassword, hashedPassword, updateCalls, updateResponse,
                   sendCalls, sendResponse, result>>

\* what .eq('email', email).single() may settle with
LookupResponses(e) ==
    (IF HasAccount(e) THEN { Resolved([data |-> AccountOf(e), error |-> Null]) } ELSE {})
    \cup { Resolved([data |-> Null, error |-> DirectoryError]),
           Resolved([data |-> Null, error |-> Null]) }
    \cup { Rejected(v) : v \in ThrownValues }

AllLookupResponses == UNION { LookupResponses(e) : e \in Emails }

\* the lookup settles; the code runs up to await bcrypt.hash
LookupSettles(p, response) ==
    /\ pc[p] = "lookup"
    /\ response \in LookupResponses(email[p])
    /\ lookupResponse' = [lookupResponse EXCEPT ![p] = response]
    /\ IF response.settle = "rejected"
       THEN /\ Settle(p, CatchSettles(response.reason))
            /\ UNCHANGED <<user, newPassword>>
       ELSE IF UserMissing(response)
       THEN /\ Settle(p, Fulfilled(UserNotFoundResult))
            /\ UNCHANGED <<user, newPassword>>
       ELSE /\ user' = [user EXCEPT ![p] = response.data]
            /\ \E password \in _generateRandomPassword(options.passwordLength) :
                  newPassword' = [newPassword EXCEPT ![p] = password]
            /\ pc' = [pc EXCEPT ![p] = "hash"]
            /\ UNCHANGED result
    /\ UNCHANGED <<config, service, options, store, lastWriter, email,
                   hashedPassword, updateCalls, updateResponse, sendCalls,
                   sendResponse>>

\* the segment with the await of the update left out: the send is issued
\* while the update is still unanswered
HashSettlesNoAwait(p, salt) ==
    /\ pc[p] = "hash"
    /\ LET hashed == Hash(newPassword[p], options.saltRounds, salt) IN
        /\ hashedPassword' = [hashedPassword EXCEPT ![p] = hashed]
        /\ updateCalls' = [updateCalls EXCEPT ![p] =
              Append(@, <<UpdateTarget(user[p]), UpdateValues(newPassword[p], hashed)>>)]
    /\ sendCalls' = [sendCalls EXCEPT ![p] =
          Append(@, <<config.mailgunDomain,
                      EmailData(options, email[p], newPassword[p])>>)]
    /\ pc' = [pc EXCEPT ![p] = "send"]
    /\ UNCHANGED <<config, service, options, store, lastWriter, email,
                   lookupResponse, user, newPassword, updateResponse,
                   sendResponse, result>>

\* bcrypt.hash settles; the code issues the update and suspends (user.id of a
\* null user throws before the call is issued)
HashSettles(p, salt) ==
    /\ pc[p] = "hash"
    /\ LET hashed == Hash(newPassword[p], options.saltRounds, salt) IN
        /\ hashedPassword' = [hashedPassword EXCEPT ![p] = hashed]
        /\ IF user[p] = Null
           THEN /\ Settle(p, CatchSettles(TypeErrorOf("id")))
                /\ UNCHANGED updateCalls
           ELSE /\ updateCalls' = [updateCalls EXCEPT ![p] =
                      Append(@, <<UpdateTarget(user[p]),
                                  UpdateValues(newPassword[p], hashed)>>)]
                /\ pc' = [pc EXCEPT ![p] = "update"]
                /\ UNCHANGED result
    /\ UNCHANGED <<config, service, options, store, lastWriter, email,
                   lookupResponse, user, newPassword, updateResponse, sendCalls,
                   sendResponse>>

\* what the update may settle with
UpdateResponses ==
    { Resolved([error |-> Null]), Resolved([error |-> DirectoryError]) }
    \cup { Rejected(v) : v \in ThrownValues }

\* the directory serves the update call of p: it applies the write exactly
\* when it answers without error
DirectoryUpdate(p, response) ==
    /\ pc[p] = "update"
    /\ LET call == updateCalls[p][Len(updateCalls[p])] IN
       IF response = Resolved([error |-> Null])
       THEN /\ store' = [store EXCEPT ![call[1]] = call[2]]
            /\ lastWriter' = [lastWriter EXCEPT ![call[1]] = p]
       ELSE UNCHANGED <<store, lastWriter>>
    /\ updateResponse' = [updateResponse EXCEPT ![p] = response]
    /\ pc' = [pc EXCEPT ![p] = "updated"]
    /\ UNCHANGED <<config, service, options, email, lookupResponse, user,
                   newPassword, hashedPassword, updateCalls, sendCalls,
                   sendResponse, result>>

\* the update settles in the code, which runs up to await messages.create
UpdateSettles(p) ==
    /\ pc[p] = "updated"
    /\ LET response == updateResponse[p] IN
       IF response.settle = "rejected"
       THEN /\ Settle(p, CatchSettles(response.reason))
            /\ UNCHANGED sendCalls
       ELSE IF UpdateFailed(response)
       THEN /\ Settle(p, Fulfilled(UpdateFailedResult))
            /\ UNCHANGED sendCalls
       ELSE /\ sendCalls' = [sendCalls EXCEPT ![p] =
                   Append(@, <<config.mailgunDomain,
                               EmailData(options, email[p], newPassword[p])>>)]
            /\ pc' = [pc EXCEPT ![p] = "send"]
            /\ UNCHANGED result
    /\ UNCHANGED <<config, service, options, store, lastWriter, email,
                   lookupResponse, user, newPassword, hashedPassword, updateCalls,
                   updateResponse, sendResponse>>

\* what messages.create may settle with
SendResponses ==
    { Resolved([status |-> "200"]) } \cup { Rejected(v) : v \in ThrownValues }

\* messages.create settles; the code returns
SendSettles(p, response) ==
    /\ pc[p] = "send"
    /\ sendResponse' = [sendResponse EXCEPT ![p] = response]
    /\ IF response.settle = "rejected"
       THEN Settle(p, CatchSettles(response.reason))
       ELSE Settle(p, Fulfilled(SuccessResult))
    /\ UNCHANGED <<config, service, options, store, lastWriter, email,
                   lookupResponse, user, newPassword, hashedPassword, updateCalls,
                   updateResponse, sendCalls>>

\* resetUserPassword (example.js): how its promise settles once the promise of
\* passwordReset.resetPasswordByEmail has settled
resetUserPassword(settled) ==
    IF settled.state = "rejected" THEN CatchSettles(settled.reason) ELSE settled

Next ==
    \/ Construct
    \/ \E p \in Invocations, e \in Emails : Start(p, e)
    \/ \E p \in Invocations, response \in AllLookupResponses : LookupSettles(p, response)
    \/ \E p \in Invocations, salt \in Salts : HashSettles(p, salt)
    \/ \E p \in Invocations, response \in UpdateResponses : DirectoryUpdate(p, response)
    \/ \E p \in Invocations : UpdateSettles(p)
    \/ \E p \in Invocations, response \in SendResponses : SendSettles(p, response)

Spec == Init /\ [][Next]_vars

\* the step of invocation p that answers its pending await (at most one kind is
\* enabled at a time, by pc)
Answer(p) ==
    \/ \E response \in AllLookupResponses : LookupSettles(p, response)
    \/ \E salt \in Salts : HashSettles(p, salt)
    \/ \E response \in UpdateResponses : DirectoryUpdate(p, response)
    \/ UpdateSettles(p)
    \/ \E response \in SendResponses : SendSettles(p, response)

\* every awaited call is eventually answered and the continuation of a
\* settled await is eventually run
Fairness == \A p \in Invocations : WF_vars(Answer(p))

\* the configurations that pass no options object: the options select the
\* sender and the template, never the path through the awaits
FairInit == Init /\ config.options = NoOptions

FairSpec == FairInit /\ [][Next]_vars /\ Fairness

(***************************************************************************)
(* Properties.                                                             *)
(***************************************************************************)
Settled(p) == pc[p] = "settled"
Found(p) ==
    /\ lookupResponse[p].settle = "resolved"
    /\ lookupResponse[p].error = Null
    /\ lookupResponse[p].data # Null
UpdateAccepted(p) ==
    /\ updateResponse[p].settle = "resolved"
    /\ updateResponse[p].error = Null
Returned(p, value) == result[p] = [state |-> "fulfilled", value |-> value]
RequiredFields == {"supabaseUrl", "supabaseKey", "mailgunApiKey", "mailgunDomain"}

\* C1: resetPasswordByEmail never throws or rejects: whatever the directory
\* and the notification sender do (return an error value, throw, reject with
\* any value), the promise of an invocation is never rejected.
C1_NeverRejects ==
    \A p \in Invocations : result[p].state # "rejected"

\* C2: if the send fails after the write succeeded, the invocation returns
\* success:false with "An unexpected error occurred" and an error text, and
\* the hash it wrote stays in the directory.
C2_SendFailureReported ==
    \A p \in Invocations :
        (Settled(p) /\ UpdateAccepted(p) /\ sendResponse[p].settle = "rejected") =>
            /\ result[p].state = "fulfilled"
            /\ result[p].value.success = FALSE
            /\ result[p].value.message = "An unexpected error occurred"
            /\ "error" \in DOMAIN result[p].value
            /\ result[p].value.error # Undefined
            /\ lastWriter[user[p].id] = p => store[user[p].id] = hashedPassword[p]

\* The case of C2 in which the send rejects with an Error object: the result
\* carries the message of that Error, and the hash written stays stored.
SendRejectedWithError ==
    \A p \in Invocations :
        (Settled(p) /\ UpdateAccepted(p) /\ sendResponse[p].settle = "rejected"
            /\ sendResponse[p].reason.kind = "Error") =>
            /\ Returned(p, [success |-> FALSE,
                            message |-> "An unexpected error occurred",
                            error |-> sendResponse[p].reason.message])
            /\ lastWriter[user[p].id] = p => store[user[p].id] = hashedPassword[p]

\* The caller of example.js absorbs a rejection of resetPasswordByEmail: the
\* promise of resetUserPassword is never rejected.
CallerNeverRejects ==
    \A p \in Invocations : resetUserPassword(result[p]).state # "rejected"

\* C3: for an email without an account, to which the directory answers with
\* no record, the invocation returns success:false with "User not found"; and
\* whatever the directory answers, the invocation issues no update and no
\* send and is not the writer of any stored hash.
C3_NoAccountNoEffect ==
    \A p \in Invocations :
        (pc[p] # "idle" /\ ~HasAccount(email[p])) =>
            /\ updateCalls[p] = <<>>
            /\ sendCalls[p] = <<>>
            /\ \A id \in Ids : lastWriter[id] # p
            /\ pc[p] \in {"lookup", "settled"}
            /\ (Settled(p) /\ lookupResponse[p].settle = "resolved") =>
                  Returned(p, [success |-> FALSE, message |-> "User not found"])

C3_Witness ==
    \E p \in Invocations :
        /\ Settled(p) /\ ~HasAccount(email[p])
        /\ lookupResponse[p].settle = "resolved"
        /\ result[p].value.message = "User not found"
        /\ \E id \in Ids : store[id] # InitialHash

\* C4: if the directory answers the update with an error, the invocation
\* returns success:false with "Failed to update password"; and after any
\* failed update (an error value or a rejection) no send is issued and the
\* update was issued exactly once.
C4_UpdateFailure ==
    \A p \in Invocations :
        (Settled(p) /\ updateResponse[p].settle # "none" /\ ~UpdateAccepted(p)) =>
            /\ sendCalls[p] = <<>>
            /\ sendResponse[p].settle = "none"
            /\ Len(updateCalls[p]) = 1
            /\ updateResponse[p].settle = "resolved" =>
                  Returned(p, [success |-> FALSE, message |-> "Failed to update password"])

C4_Witness ==
    \E p \in Invocations :
        /\ Settled(p)
        /\ updateResponse[p].settle = "resolved"
        /\ updateResponse[p].error = DirectoryError
        /\ result[p].value.message = "Failed to update password"
        /\ store[user[p].id] = InitialHash

\* C5: if the lookup answers with an error or with no record, the invocation
\* has returned exactly {success:false, message:"User not found"}, without an
\* error field, and its promise is not rejected.
C5_LookupFailure ==
    \A p \in Invocations :
        (lookupResponse[p].settle = "resolved" /\ ~Found(p)) =>
            /\ Settled(p)
            /\ result[p].state = "fulfilled"
            /\ DOMAIN result[p].value = {"success", "message"}
            /\ result[p].value.success = FALSE
            /\ result[p].value.message = "User not found"

C5_Witness ==
    \E p \in Invocations :
        /\ HasAccount(email[p])
        /\ lookupResponse[p].settle = "resolved"
        /\ lookupResponse[p].error = DirectoryError
        /\ Returned(p, [success |-> FALSE, message |-> "User not found"])

\* C6: when the lookup finds the account and the update and the send both
\* succeed, the invocation returns success:true with the literal message, it
\* has issued exactly one update, for the id of the account of the email, and
\* exactly one send, to the input email.
C6_SuccessPath ==
    \A p \in Invocations :
        (Settled(p) /\ Found(p) /\ UpdateAccepted(p)
            /\ sendResponse[p].settle = "resolved") =>
            /\ Returned(p, [success |-> TRUE, message |->
                  "Password reset successful. An email has been sent with the new password."])
            /\ Len(updateCalls[p]) = 1
            /\ updateCalls[p][1][1] = AccountOf(email[p]).id
            /\ Len(sendCalls[p]) = 1
            /\ sendCalls[p][1][2].to = email[p]

C6_Witness ==
    \E p \in Invocations :
        /\ Settled(p) /\ email[p] = "user@example.com"
        /\ result[p].state = "fulfilled" /\ result[p].value.success
        /\ updateCalls[p] = <<(<<"u1", hashedPassword[p]>>)>>
        /\ Len(sendCalls[p]) = 1
        /\ sendCalls[p][1][2].to = "user@example.com"

\* C7: when two invocations for the same email overlap, the directory accepts
\* both updates and both sends succeed, both return success:true, and the
\* stored hash is the one written by the update the directory applied last.
C7_LastWriteWins ==
    \A p, q \in Invocations :
        (p # q /\ email[p] = email[q] /\ Settled(p) /\ Settled(q)
            /\ UpdateAccepted(p) /\ UpdateAccepted(q)
            /\ sendResponse[p].settle = "resolved"
            /\ sendResponse[q].settle = "resolved") =>
            /\ result[p].state = "fulfilled" /\ result[p].value.success
            /\ result[q].state = "fulfilled" /\ result[q].value.success
            /\ lastWriter[user[p].id] \in {p, q}
            /\ store[user[p].id] = hashedPassword[lastWriter[user[p].id]]

\* both succeeded with different hashes and the first to be called lost
C7_Witness ==
    /\ email["call1"] = email["call2"]
    /\ Settled("call1") /\ Settled("call2")
    /\ result["call1"].state = "fulfilled" /\ result["call1"].value.success
    /\ result["call2"].state = "fulfilled" /\ result["call2"].value.success
    /\ hashedPassword["call1"] # hashedPassword["call2"]
    /\ lastWriter[user["call1"].id] = "call2"
    /\ store[user["call1"].id] = hashedPassword["call2"]
    /\ store[user["call1"].id] # hashedPassword["call1"]

\* C8: the directory never holds a generated password: every value an
\* invocation writes is a bcrypt hash of the password generated in that
\* invocation, differs from it, and the password that reaches the body of the
\* invocation's email verifies against it.
C8_OnlyHashesStored ==
    /\ \A id \in Ids : \A p \in Invocations : store[id] # newPassword[p]
    /\ \A id \in Ids :
          \/ store[id] = InitialHash
          \/ \E p \in Invocations : Compare(newPassword[p], store[id])
    /\ \A p \in Invocations : \A i \in 1..Len(updateCalls[p]) :
          /\ updateCalls[p][i][2] # newPassword[p]
          /\ \E salt \in Salts :
                updateCalls[p][i][2] = Hash(newPassword[p], 10, salt)
          /\ Compare(newPassword[p], updateCalls[p][i][2])
          /\ \A j \in 1..Len(sendCalls[p]) : \A password \in Passwords :
                Contains(sendCalls[p][j][2].text, password) =>
                    Compare(password, updateCalls[p][i][2])

C8_Witness ==
    \E p \in Invocations :
        /\ Settled(p) /\ Len(sendCalls[p]) = 1
        /\ lastWriter[user[p].id] = p
        /\ Contains(sendCalls[p][1][2].text, newPassword[p])
        /\ Compare(newPassword[p], store[user[p].id])
        /\ store[user[p].id] # newPassword[p]

\* C9 as stated: on success, for every configuration, the payload has to = the
\* input email, from = "{fromName} <{fromEmail}>", a body equal to
\* emailTemplateFunction(email, password), and the body contains the password.
C9_PayloadContainsPassword ==
    \A p \in Invocations :
        (Settled(p) /\ result[p].state = "fulfilled" /\ result[p].value.success) =>
            LET data == sendCalls[p][1][2] IN
            /\ data.to = email[p]
            /\ data.from = options.fromName \o " <" \o options.fromEmail \o ">"
            /\ data.text = ApplyTemplate(options.emailTemplateFunction, email[p], newPassword[p])
            /\ Contains(data.text, newPassword[p])

\* C9 amended: on success, for every configuration, the payload has to = the
\* input email, from = "{fromName} <{fromEmail}>" and a body equal to
\* emailTemplateFunction(email, password); the body contains the password
\* under the default template and under a custom template that interpolates
\* its password argument.
C9_Payload ==
    \A p \in Invocations :
        (Settled(p) /\ result[p].state = "fulfilled" /\ result[p].value.success) =>
            LET data == sendCalls[p][1][2] IN
            /\ data.to = email[p]
            /\ data.from = options.fromName \o " <" \o options.fromEmail \o ">"
            /\ data.subject = options.subject
            /\ data.text = ApplyTemplate(options.emailTemplateFunction, email[p], newPassword[p])
            /\ options.emailTemplateFunction \in {"_defaultEmailTemplate", "verboseTemplate"}
                  => Contains(data.text, newPassword[p])

C9_Witness ==
    \E p \in Invocations :
        /\ Settled(p) /\ result[p].state = "fulfilled" /\ result[p].value.success
        /\ options.emailTemplateFunction = "verboseTemplate"
        /\ sendCalls[p][1][2].from = "Your Company Support <support@yourcompany.com>"
        /\ sendCalls[p][1][2].to = email[p]
        /\ Contains(sendCalls[p][1][2].text, newPassword[p])

\* C10: a configuration in which one of the four required fields is absent
\* or empty never yields an instance, and without an instance no invocation
\* starts: no lookup, update or send is ever issued.
C10_ConstructionFailsFast ==
    /\ (\E f \in RequiredFields : config[f] \in {Undefined, ""}) => service # "ready"
    /\ service # "ready" =>
          \A p \in Invocations :
              /\ pc[p] = "idle"
              /\ lookupResponse[p].settle = "none"
              /\ updateCalls[p] = <<>>
              /\ sendCalls[p] = <<>>
    /\ service = "ready" => \A f \in RequiredFields : config[f] \notin {Undefined, ""}

C10_Witness ==
    /\ service = "failed"
    /\ config.mailgunDomain = ""
    /\ \A f \in RequiredFields \ {"mailgunDomain"} : config[f] \notin {Undefined, ""}

\* the awaits an invocation passes through, in the order of the code
StepOrder ==
    [ idle |-> {"lookup"},
      lookup |-> {"hash", "settled"},
      hash |-> {"update", "settled"},
      update |-> {"updated"},
      updated |-> {"send", "settled"},
      send |-> {"settled"},
      settled |-> {} ]

\* a step has been started only when the previous one has answered
AnsweredBeforeNext(p) ==
    /\ pc[p] \in {"hash", "update", "updated", "send"} => Found(p)
    /\ updateCalls[p] # <<>> =>
          /\ Found(p)
          /\ hashedPassword[p] # <<>>
          /\ updateCalls[p][1][2] = hashedPassword[p]
    /\ updateResponse[p].settle # "none" => Len(updateCalls[p]) = 1
    /\ sendCalls[p] # <<>> => UpdateAccepted(p)
    /\ sendResponse[p].settle # "none" => Len(sendCalls[p]) = 1
    /\ Settled(p) <=> result[p].state # "pending"

\* C11: once started, every invocation eventually settles (with a result or
\* a failure), given that every awaited call is eventually answered; the
\* invocation moves through lookup, hash, update and send in that order, and
\* issues no call before the previous one has answered.  (An invocation never
\* returns to idle and never leaves settled, so "every started invocation
\* eventually settles" is: from some point on, every invocation is idle or
\* settled.)
C11_RunsToCompletion ==
    /\ <>[](\A p \in Invocations : pc[p] = "idle" \/ Settled(p))
    /\ [][\A p \in Invocations : pc'[p] # pc[p] => pc'[p] \in StepOrder[pc[p]]]_vars
    /\ [](\A p \in Invocations : AnsweredBeforeNext(p))

\* an invocation that went through all four awaits and settled
C11_Witness ==
    \E p \in Invocations :
        /\ Settled(p)
        /\ Found(p)
        /\ hashedPassword[p] # <<>>
        /\ UpdateAccepted(p)
        /\ sendResponse[p].settle # "none"

====
